---- MODULE Spec2Model ----
(***************************************************************************)
(* A model of the DDB OAI-PMH harvester in its two variants:               *)
(*   harvest_records.py             identifier mode: ListIdentifiers, then *)
(*                                  one GetRecord task per identifier on a *)
(*                                  thread pool                            *)
(*   harvest_records_in_batches.py  batch mode: ListRecords, sequential    *)
(* The server and the network are the environment: every answer they give  *)
(* is a nondeterministic input of the action that issues the request.      *)
(***************************************************************************)
EXTENDS Integers, Sequences, FiniteSets, TLC

VARIABLES
    mode,              \* which script runs: "identifiers" or "batch"
    pc,                \* position of the harvesting (main) thread
    error,             \* the exception propagating out of harvest_ddb_data, or "none"
    sets,              \* harvest_ddb_data: sets, the parsed set specs
    setIdx,            \* harvest_ddb_data: position of the for loop over sets
    partition,         \* environment: the current partition on the server [n, p]
    params,            \* list_identifiers / list_records: params
    resumption_token,  \* list_identifiers / list_records: resumption_token
    collected,         \* list_identifiers: identifiers / list_records: records
    expected,          \* expected_identifiers_in_set / expected_records_in_set
    listing,           \* history of the current pagination loop
    tasks,             \* the futures of the latest ThreadPoolExecutor
    saveIdx,           \* batch mode: position of the for loop over records
    files,             \* the file system under SAVE_DIR: path -> content
    wire,              \* history: the kinds of HTTP request issued so far
    out,               \* history: the kinds of message printed for the current set
    call               \* the function application examined by the unit specifications

vars == <<mode, pc, error, sets, setIdx, partition, params, resumption_token,
          collected, expected, listing, tasks, saveIdx, files, wire, out, call>>

harvestVars == <<mode, pc, error, sets, setIdx, partition, params, resumption_token,
                 collected, expected, listing, tasks, saveIdx, files, wire, out>>

----------------------------------------------------------------------------
(* Program constants *)

MAX_RETRIES == 10
HTTP_OK == 200

(* Bounds of the model *)

MaxSets == 2        \* set elements in a ListSets answer
MaxItems == 3       \* items the last partition holds on the server
MaxEarlierItems == 1  \* items an earlier partition holds
MaxPage == 2        \* largest page size the server uses
MaxCollected == 3   \* items collected in one partition (a repeated token re-serves pages)
MaxWorkers == 2     \* worker threads of a ThreadPoolExecutor
MaxListing == 3     \* set elements of a document handed to parse_sets alone

----------------------------------------------------------------------------
(* Values *)

None == "None"

Min(a, b) == IF a < b THEN a ELSE b

CeilDiv(a, b) == (a + b - 1) \div b

RECURSIVE SumSeq(_)
SumSeq(s) == IF s = <<>> THEN 0 ELSE Head(s) + SumSeq(Tail(s))

\* A resumption token is None (NoToken), or its text: 0 stands for the empty
\* string, t > 0 for a cursor.  Python truthiness: None and "" are falsy.
NoToken == -1
Truthy(token) == token # NoToken /\ token # 0

----------------------------------------------------------------------------
(* make_request: one attempt outcome per value of retries.  transport[i] is *)
(* what session.get / raise_for_status do on the attempt made with          *)
(* retries = i: "ok", or "RequestException".                                *)

Transports == [0..MAX_RETRIES -> {"ok", "RequestException"}]

\* the transport that fails on the first k attempts and succeeds afterwards
FailFirst(k) == [i \in 0..MAX_RETRIES |-> IF i < k THEN "RequestException" ELSE "ok"]

RECURSIVE make_request_capless(_, _)
make_request_capless(transport, retries) ==
    IF transport[Min(retries, MAX_RETRIES)] = "ok"
    THEN [raised |-> FALSE, attempts |-> 1, sleeps |-> <<>>]
    ELSE IF retries < MAX_RETRIES + 1
         THEN LET wait_time == 2 ^ retries
                  rest == make_request_capless(transport, retries + 1)
              IN  [rest EXCEPT !.attempts = @ + 1, !.sleeps = <<wait_time>> \o @]
         ELSE [raised |-> TRUE, attempts |-> 1, sleeps |-> <<>>]

RECURSIVE make_request(_, _)
make_request(transport, retries) ==
    IF transport[retries] = "ok"
    THEN [raised |-> FALSE, attempts |-> 1, sleeps |-> <<>>]
    ELSE IF retries < MAX_RETRIES
         THEN LET wait_time == 2 ^ retries
                  rest == make_request(transport, retries + 1)
              IN  [rest EXCEPT !.attempts = @ + 1, !.sleeps = <<wait_time>> \o @]
         ELSE [raised |-> TRUE, attempts |-> 1, sleeps |-> <<>>]

----------------------------------------------------------------------------
(* get_record_information.  server[n] is what the n-th make_request call of *)
(* the loop meets: its transport and, if an attempt succeeds, the response. *)

RecordBody == "record"
ErrorBodies == {"cannotDisseminateFormat", "idDoesNotExist"}
NON_200 == 204     \* a success status raise_for_status lets through that is not 200

Response(status, body) == [status_code |-> status, text |-> body]

\* the condition of the if in the retry loop
IsRetried(response) ==
    \/ response.status_code # HTTP_OK
    \/ response.text = "cannotDisseminateFormat"
    \/ response.text = "idDoesNotExist"

RECURSIVE get_record_loop_short(_, _, _)
get_record_loop_short(server, retries, acc) ==
    IF retries < MAX_RETRIES - 1
    THEN LET n == acc.calls + 1
             r == make_request(server[n].transport, 0)
             seen == [acc EXCEPT !.calls = n, !.attempts = @ + r.attempts]
         IN  IF r.raised
             THEN [seen EXCEPT !.raised = TRUE]
             ELSE IF IsRetried(server[n].response)
                  THEN get_record_loop_short(server, retries + 1,
                           [seen EXCEPT !.response = server[n].response,
                                        !.sleeps = Append(@, 5 * (retries + 1))])
                  ELSE [seen EXCEPT !.response = server[n].response]
    ELSE acc

RECURSIVE get_record_loop_one_more(_, _, _)
get_record_loop_one_more(server, retries, acc) ==
    IF retries < MAX_RETRIES + 1
    THEN LET n == acc.calls + 1
             answer == server[Min(n, MAX_RETRIES)]
             r == make_request(answer.transport, 0)
             seen == [acc EXCEPT !.calls = n, !.attempts = @ + r.attempts]
         IN  IF r.raised
             THEN [seen EXCEPT !.raised = TRUE]
             ELSE IF IsRetried(answer.response)
                  THEN get_record_loop_one_more(server, retries + 1,
                           [seen EXCEPT !.response = answer.response,
                                        !.sleeps = Append(@, 5 * (retries + 1))])
                  ELSE [seen EXCEPT !.response = answer.response]
    ELSE acc

RECURSIVE get_record_loop(_, _, _)
get_record_loop(server, retries, acc) ==
    IF retries < MAX_RETRIES
    THEN LET n == acc.calls + 1
             r == make_request(server[n].transport, 0)
             seen == [acc EXCEPT !.calls = n, !.attempts = @ + r.attempts]
         IN  IF r.raised
             THEN [seen EXCEPT !.raised = TRUE]
             ELSE IF IsRetried(server[n].response)
                  THEN get_record_loop(server, retries + 1,
                           [seen EXCEPT !.response = server[n].response,
                                        !.sleeps = Append(@, 5 * (retries + 1))])
                  ELSE [seen EXCEPT !.response = server[n].response]
    ELSE acc

get_record_information(server) ==
    get_record_loop(server, 0,
        [raised |-> FALSE, response |-> None, calls |-> 0, attempts |-> 0,
         sleeps |-> <<>>])

\* A GetRecord server: the first nbad calls answer bad, the later ones answer
\* the record; the transport of call n fails on the first fails[n] attempts.
GetRecordServer(nbad, bad, fails) ==
    [n \in 1..MAX_RETRIES |->
        [transport |-> FailFirst(fails[n]),
         response  |-> IF n <= nbad THEN bad ELSE Response(HTTP_OK, RecordBody)]]

BadResponses ==
    {Response(HTTP_OK, b) : b \in ErrorBodies} \cup {Response(NON_200, RecordBody)}

----------------------------------------------------------------------------
(* parse_sets.  A set spec is the sequence of its characters; the ListSets  *)
(* document is the sequence of the setSpec texts of its set elements.       *)

\* the sets of the server, in the order it lists them
Catalogue == <<<<"n">>, <<"n", ":", "i">>, <<"m">>, <<"m", ":", "n">>, <<"o">>>>

\* the subsequences of s with at most n elements
RECURSIVE SubSeqs(_, _)
SubSeqs(s, n) ==
    IF s = <<>> \/ n = 0 THEN {<<>>}
    ELSE SubSeqs(Tail(s), n) \cup {<<Head(s)>> \o q : q \in SubSeqs(Tail(s), n - 1)}

\* the ListSets documents: at most MaxSets of the first MaxSets + 1 sets
SetListings == SubSeqs(SubSeq(Catalogue, 1, Min(MaxSets + 1, Len(Catalogue))), MaxSets)

NoColon_at_start(set_spec) == set_spec = <<>> \/ set_spec[1] # ":"

\* ":" not in set_spec
NoColon(set_spec) == \A i \in 1..Len(set_spec) : set_spec[i] # ":"

RECURSIVE parse_sets(_)
parse_sets(xml_data) ==
    IF xml_data = <<>> THEN <<>>
    ELSE LET set_spec == Head(xml_data)
             rest == parse_sets(Tail(xml_data))
         IN  IF NoColon(set_spec) THEN <<set_spec>> \o rest ELSE rest

----------------------------------------------------------------------------
(* The list server.  A partition holds the items 1..n and is served in      *)
(* pages of p items; a cursor is the offset of the next page.  A response   *)
(* is what the client reads of the body: the items of the page, whether a   *)
(* resumptionToken node exists, its text (0: empty) and its completeListSize*)
(* attribute (-1: no such attribute); rev is the revision of the records   *)
(* the page carries (a re-served page may carry changed records).          *)

NoAttr == -1

Offset(request) ==
    IF "resumptionToken" \in DOMAIN request THEN request.resumptionToken ELSE 0

Page(off) ==
    LET last == Min(off + partition.p, partition.n)
    IN  [i \in 1..(IF last > off THEN last - off ELSE 0) |-> off + i]

HasNext(off) == off + partition.p < partition.n

ListResponse(status, items, node, text, size, rev) ==
    [status_code |-> status, items |-> items, node |-> node, text |-> text,
     size |-> size, rev |-> rev]

Sizes == {NoAttr, 0, partition.n, partition.n + 1}

\* the answers of a server that follows the protocol
HonestResponses(off) ==
    IF HasNext(off)
    THEN {ListResponse(HTTP_OK, Page(off), TRUE, off + partition.p, partition.n, 1)}
    ELSE {ListResponse(HTTP_OK, Page(off), FALSE, 0, NoAttr, 1),
          ListResponse(HTTP_OK, Page(off), TRUE, 0, partition.n, 1)}

\* every answer the environment may give to a list request made at offset
\* off; a token is repeated only while what it makes the client collect again
\* fits MaxCollected
ListResponses(off) ==
    HonestResponses(off)
    \cup {ListResponse(NON_200, <<>>, FALSE, 0, NoAttr, 1)}
    \cup (IF HasNext(off)
          THEN {ListResponse(NON_200, Page(off), TRUE, off + partition.p, partition.n, 1)}
          ELSE {})
    \cup {ListResponse(HTTP_OK, Page(off), TRUE,
                       IF HasNext(off) THEN off + partition.p ELSE 0, z, 1) : z \in Sizes}
    \cup (IF HasNext(off)
          THEN {ListResponse(HTTP_OK, Page(off), FALSE, 0, NoAttr, 1)}
          ELSE {})
    \cup (IF off > 0
             /\ Len(collected) + Len(Page(off)) + partition.n - off <= MaxCollected
          THEN {ListResponse(HTTP_OK, Page(off), TRUE, off, z, v) :
                    z \in Sizes, v \in {1, 2}}
          ELSE {})

\* root.findtext(".//resumptionToken")
FindText(response) == IF response.node THEN response.text ELSE NoToken

----------------------------------------------------------------------------
(* State of the harvest *)

Modes == {"identifiers", "batch"}

ListVerb == IF mode = "identifiers" THEN "ListIdentifiers" ELSE "ListRecords"

\* The history of a pagination loop: the make_request calls so far, whether
\* the server has followed the protocol and the transport has not failed, the
\* status, the token and the completeListSize of the most recent response,
\* and how the loop ended.
NoResponse == -2
NoListing ==
    [requests |-> 0, honest |-> TRUE, status |-> 0, last |-> NoResponse,
     size |-> NoResponse, ended |-> "no"]

\* params outside list_identifiers / list_records: the local does not exist
NoParams == [verb |-> "none"]

NoCall == [op |-> "none"]

NoFiles == [path \in {} |-> None]

WriteFile_keeps_existing(path, content) ==
    IF path \in DOMAIN files THEN files
    ELSE [q \in DOMAIN files \cup {path} |-> IF q = path THEN content ELSE files[q]]

\* open(file_path, "w").write(content): the file holds content, whatever it held
WriteFile(path, content) == [q \in DOMAIN files \cup {path} |->
                                IF q = path THEN content ELSE files[q]]

\* save_metadata / save_record: the file <dataset_id>/<identifier>.xml
save_metadata(record_xml, identifier, dataset_id) ==
    WriteFile(<<dataset_id, identifier>>, record_xml)

Say(kind) == out \cup {kind}

HarvestInit ==
    /\ mode \in Modes
    /\ pc = "start"
    /\ error = "none"
    /\ sets = <<>>
    /\ setIdx = 0
    /\ partition = [n |-> 0, p |-> 1]
    /\ params = NoParams
    /\ resumption_token = NoToken
    /\ collected = <<>>
    /\ expected = 0
    /\ listing = NoListing
    /\ tasks = <<>>
    /\ saveIdx = 0
    /\ files = NoFiles
    /\ wire = {}
    /\ out = {}

Init == HarvestInit /\ call = NoCall

----------------------------------------------------------------------------
(* harvest_ddb_data, up to the for loop: list_sets and parse_sets.          *)
(* requests.get either raises (connection error), or answers with a status. *)

ListSetsOutcomes ==
    {[kind |-> "RequestException"], [kind |-> "status", status_code |-> 503]}
    \cup {[kind |-> "status", status_code |-> HTTP_OK, text |-> l] : l \in SetListings}

list_sets ==
    /\ pc = "start"
    /\ wire' = wire \cup {<<"ListSets", "requests.get">>}
    /\ \E result \in ListSetsOutcomes :
         IF result.kind = "RequestException"
         THEN /\ pc' = "raised"
              /\ error' = "RequestException"
              /\ UNCHANGED <<sets, out>>
         ELSE IF result.status_code # HTTP_OK
         THEN /\ out' = Say("Error status")
              /\ pc' = "done"
              /\ UNCHANGED <<sets, error>>
         ELSE /\ sets' = parse_sets(result.text)
              /\ out' = Say("Found sets")
              /\ pc' = "next_set"
              /\ UNCHANGED error
    /\ UNCHANGED <<mode, setIdx, partition, params, resumption_token, collected,
                   expected, listing, tasks, saveIdx, files, call>>

\* the for loop over sets: take the next set and enter list_identifiers /
\* list_records, or leave the loop.  The server's partition is chosen here.
next_set ==
    /\ pc = "next_set"
    /\ IF setIdx < Len(sets)
       THEN /\ setIdx' = setIdx + 1
            /\ out' = {"Processing set"}
            /\ \E n \in 0..(IF setIdx + 1 = Len(sets) THEN MaxItems ELSE MaxEarlierItems),
                  p \in 1..MaxPage : partition' = [n |-> n, p |-> p]
            /\ collected' = <<>>
            /\ expected' = 0
            /\ resumption_token' = NoToken
            /\ params' = [verb |-> ListVerb, metadataPrefix |-> "ddb",
                          set |-> sets[setIdx + 1]]
            /\ listing' = NoListing
            /\ tasks' = <<>>
            /\ pc' = "paginate"
       ELSE /\ pc' = "done"
            /\ UNCHANGED <<setIdx, out, partition, collected, expected,
                           resumption_token, params, listing, tasks>>
    /\ UNCHANGED <<mode, error, sets, saveIdx, files, wire, call>>

----------------------------------------------------------------------------
(* list_identifiers / list_records: one iteration of the while loop per     *)
(* step; the step that leaves the loop also runs the code after it.         *)

\* the number of failing attempts a list request meets
ListFails == {0, 1, MAX_RETRIES + 1}

\* response = make_request(params, session): how a list request is sent
send_list_request_direct(k) ==
    [via |-> "session.get",
     result |-> [raised |-> k > 0, attempts |-> 1, sleeps |-> <<>>]]

send_list_request(k) ==
    [via |-> "make_request", result |-> make_request(FailFirst(k), 0)]

NextParams_first_only == params

NextParams_resends_set ==
    IF Truthy(resumption_token)
    THEN [verb |-> ListVerb, metadataPrefix |-> "ddb", set |-> sets[setIdx],
          resumptionToken |-> resumption_token]
    ELSE params

\* if resumption_token: params = {verb, resumptionToken}
NextParams ==
    IF Truthy(resumption_token)
    THEN [verb |-> ListVerb, resumptionToken |-> resumption_token]
    ELSE params

\* parse_identifiers: the identifier texts; parse_records_list: the record
\* elements, serialized
ParseItems(response) ==
    IF mode = "identifiers"
    THEN response.items
    ELSE [i \in 1..Len(response.items) |->
             [identifier |-> response.items[i], rev |-> response.rev]]

\* the expected total after a page: read while it is 0; find() is None for a
\* missing node (AttributeError, caught: the items so far), attrib[...] raises
\* KeyError for a node without completeListSize (not caught)
KeyError == -2

ExpectedAfter_without_fallback(response, found) ==
    IF expected # 0 THEN expected
    ELSE IF ~response.node THEN 0
    ELSE IF response.size = NoAttr THEN KeyError
    ELSE response.size

ExpectedAfter_rereads(response, found) ==
    IF ~response.node THEN (IF expected # 0 THEN expected ELSE found)
    ELSE IF response.size = NoAttr THEN (IF expected # 0 THEN expected ELSE KeyError)
    ELSE response.size

ExpectedAfter(response, found) ==
    IF expected # 0 THEN expected
    ELSE IF ~response.node THEN found
    ELSE IF response.size = NoAttr THEN KeyError
    ELSE response.size

LoopBreaks_on_None_only(token) == token = NoToken

\* if not resumption_token: break
LoopBreaks(token) == ~Truthy(token)

\* the warning after the loop, which only list_identifiers has
MismatchWarning(found, total) == mode = "identifiers" /\ found # total

list_page ==
    /\ pc = "paginate"
    /\ \E k \in ListFails, response \in ListResponses(Offset(NextParams)) :
         LET sent == send_list_request(k)
             r == sent.result
             seen == [listing EXCEPT
                        !.requests = @ + 1,
                        !.honest = @ /\ k = 0
                                     /\ response \in HonestResponses(Offset(NextParams)),
                        !.status = IF r.raised THEN @ ELSE response.status_code,
                        !.last = IF r.raised THEN @ ELSE FindText(response),
                        !.size = IF r.raised THEN @ ELSE response.size]
             items == collected \o ParseItems(response)
             total == ExpectedAfter(response, Len(items))
             token == FindText(response)
         IN  /\ params' = NextParams
             /\ wire' = wire \cup {<<ListVerb, sent.via>>}
             /\ IF r.raised
                THEN /\ pc' = "raised"
                     /\ error' = "RequestException"
                     /\ listing' = [seen EXCEPT !.ended = "raised"]
                     /\ UNCHANGED <<collected, expected, resumption_token, out>>
                ELSE IF response.status_code # HTTP_OK
                THEN /\ pc' = "listed"
                     /\ listing' = [seen EXCEPT !.ended = "not 200"]
                     /\ out' = IF MismatchWarning(Len(collected), expected)
                               THEN Say("Mismatch") ELSE out
                     /\ UNCHANGED <<collected, expected, resumption_token, error>>
                ELSE IF total = KeyError
                THEN /\ pc' = "raised"
                     /\ error' = "KeyError"
                     /\ collected' = items
                     /\ listing' = [seen EXCEPT !.ended = "raised"]
                     /\ UNCHANGED <<expected, resumption_token, out>>
                ELSE /\ collected' = items
                     /\ expected' = total
                     /\ resumption_token' = token
                     /\ error' = error
                     /\ IF LoopBreaks(token)
                        THEN /\ pc' = "listed"
                             /\ listing' = [seen EXCEPT !.ended = "no token"]
                             /\ out' = (IF expected = 0 /\ ~response.node
                                        THEN Say("No resumption token found") ELSE out)
                                       \cup (IF MismatchWarning(Len(items), total)
                                             THEN {"Mismatch"} ELSE {})
                        ELSE /\ pc' = "paginate"
                             /\ listing' = seen
                             /\ out' = IF expected = 0 /\ ~response.node
                                       THEN Say("No resumption token found") ELSE out
    /\ UNCHANGED <<mode, sets, setIdx, partition, tasks, saveIdx, files, call>>

----------------------------------------------------------------------------
(* harvest_ddb_data after the listing of a set *)

\* list_identifiers / list_records has returned: its locals are gone, and the
\* server's partition plays no further part
ListingReturns ==
    /\ params' = NoParams
    /\ resumption_token' = NoToken
    /\ expected' = 0
    /\ listing' = NoListing
    /\ partition' = [n |-> 0, p |-> 1]

\* a future: its task's identifier, state and response; wrote records whether
\* the task has written a file
Future(identifier) ==
    [identifier |-> identifier, state |-> "pending",
     response |-> Response(0, None), wrote |-> FALSE]

\* identifier mode: with ThreadPoolExecutor() as executor: submit every identifier
submit_all ==
    /\ pc = "listed"
    /\ mode = "identifiers"
    /\ IF collected # <<>>
       THEN /\ out' = Say("Found identifiers")
            /\ tasks' = [i \in 1..Len(collected) |-> Future(collected[i])]
            /\ pc' = "join"
       ELSE /\ out' = Say("No identifiers found")
            /\ pc' = "next_set"
            /\ UNCHANGED tasks
    /\ ListingReturns
    /\ UNCHANGED <<mode, error, sets, setIdx, collected, saveIdx, files, wire, call>>

Finished(future) == future.state \in {"done", "failed"}

join_all_reading_results ==
    /\ pc = "join"
    /\ \A i \in 1..Len(tasks) : Finished(tasks[i])
    /\ IF \E i \in 1..Len(tasks) : tasks[i].state = "failed"
       THEN pc' = "raised" /\ error' = "RequestException"
       ELSE pc' = "next_set" /\ error' = error
    /\ UNCHANGED <<mode, sets, setIdx, partition, params, resumption_token,
                   collected, expected, listing, tasks, saveIdx, files, wire, out,
                   call>>

join_all_without_waiting ==
    /\ pc = "join"
    /\ pc' = "next_set"
    /\ UNCHANGED <<mode, error, sets, setIdx, partition, params, resumption_token,
                   collected, expected, listing, tasks, saveIdx, files, wire, out,
                   call>>

\* the end of the with block: executor.shutdown(wait=True); no future is read
join_all ==
    /\ pc = "join"
    /\ \A i \in 1..Len(tasks) : Finished(tasks[i])
    /\ pc' = "next_set"
    /\ UNCHANGED <<mode, error, sets, setIdx, partition, params, resumption_token,
                   collected, expected, listing, tasks, saveIdx, files, wire, out,
                   call>>

\* the GetRecord servers a task may meet: the record at once or after one bad
\* answer, bad answers throughout, or a transport that never recovers
NoFails == [n \in 1..MAX_RETRIES |-> 0]
TaskServers ==
    {GetRecordServer(nbad, Response(HTTP_OK, "idDoesNotExist"), NoFails) :
         nbad \in {0, 1, MAX_RETRIES}}
    \cup {GetRecordServer(MAX_RETRIES, Response(NON_200, RecordBody), NoFails)}
    \cup {GetRecordServer(0, Response(HTTP_OK, RecordBody),
                          [NoFails EXCEPT ![1] = MAX_RETRIES + 1])}

\* process_record in a worker thread, first half: get_record_information.
\* An exception ends the task and stays in its future.  The executor's queue
\* is first in first out, and a task starts when a worker is idle.
\* executor.submit: the task waits in the queue until a worker takes it
MayStart_unless_failed(i) ==
    /\ tasks[i].state = "pending"
    /\ \A j \in 1..(i - 1) : tasks[j].state # "pending"
    /\ Cardinality({j \in 1..Len(tasks) : tasks[j].state = "fetched"}) < MaxWorkers
    /\ \A j \in 1..Len(tasks) : tasks[j].state # "failed"

MayStart(i) ==
    /\ tasks[i].state = "pending"
    /\ \A j \in 1..(i - 1) : tasks[j].state # "pending"
    /\ Cardinality({j \in 1..Len(tasks) : tasks[j].state = "fetched"}) < MaxWorkers

fetch_record(i) ==
    /\ i \in 1..Len(tasks)
    /\ MayStart(i)
    /\ wire' = wire \cup {<<"GetRecord", "make_request">>}
    /\ \E server \in TaskServers :
         LET result == get_record_information(server)
         IN  tasks' = [tasks EXCEPT ![i] =
                          IF result.raised
                          THEN [@ EXCEPT !.state = "failed"]
                          ELSE [@ EXCEPT !.state = "fetched",
                                         !.response = result.response]]
    /\ UNCHANGED <<mode, pc, error, sets, setIdx, partition, params, resumption_token,
                   collected, expected, listing, saveIdx, files, out, call>>

IsSaved_unless_200(response) == response.status_code # HTTP_OK

\* if result.status_code == 200
IsSaved(response) == response.status_code = HTTP_OK

\* process_record, second half: save_metadata if the status is 200
store_record(i) ==
    /\ i \in 1..Len(tasks)
    /\ tasks[i].state = "fetched"
    /\ files' = IF IsSaved(tasks[i].response)
                THEN save_metadata(tasks[i].response.text, tasks[i].identifier,
                                   sets[setIdx])
                ELSE files
    /\ tasks' = [tasks EXCEPT ![i].state = "done",
                              ![i].wrote = IsSaved(tasks[i].response)]
    /\ UNCHANGED <<mode, pc, error, sets, setIdx, partition, params, resumption_token,
                   collected, expected, listing, saveIdx, wire, out, call>>

start_saving_after_abort ==
    /\ pc \in {"listed", "raised"}
    /\ setIdx >= 1
    /\ mode = "batch"
    /\ IF collected # <<>>
       THEN /\ pc' = "save"
            /\ saveIdx' = 1
            /\ out' = out
       ELSE /\ out' = Say("No records found")
            /\ pc' = "next_set"
            /\ UNCHANGED saveIdx
    /\ ListingReturns
    /\ UNCHANGED <<mode, error, sets, setIdx, collected, tasks, files, wire, call>>

\* batch mode: if records: for record in records: save_record(...)
start_saving ==
    /\ pc = "listed"
    /\ mode = "batch"
    /\ IF collected # <<>>
       THEN /\ pc' = "save"
            /\ saveIdx' = 1
            /\ out' = out
       ELSE /\ out' = Say("No records found")
            /\ pc' = "next_set"
            /\ UNCHANGED saveIdx
    /\ ListingReturns
    /\ UNCHANGED <<mode, error, sets, setIdx, collected, tasks, files, wire, call>>

save_record ==
    /\ pc = "save"
    /\ IF saveIdx <= Len(collected)
       THEN /\ files' = save_metadata(collected[saveIdx],
                                      collected[saveIdx].identifier, sets[setIdx])
            /\ saveIdx' = saveIdx + 1
            /\ UNCHANGED <<pc, out>>
       ELSE /\ out' = Say("Collected records")
            /\ pc' = "next_set"
            /\ saveIdx' = 0
            /\ UNCHANGED files
    /\ UNCHANGED <<mode, error, sets, setIdx, partition, params, resumption_token,
                   collected, expected, listing, tasks, wire, call>>

----------------------------------------------------------------------------
Next ==
    \/ list_sets
    \/ next_set
    \/ list_page
    \/ submit_all
    \/ join_all
    \/ \E i \in 1..MaxCollected : fetch_record(i)
    \/ \E i \in 1..MaxCollected : store_record(i)
    \/ start_saving
    \/ save_record

Spec == Init /\ [][Next]_vars

\* The dispatch of one partition: harvest_records.py against a server that
\* lists at most one harvestable set.  The harvesting thread and every worker thread
\* keep running: a step that stays possible is eventually taken.
DispatchInit == Init /\ mode = "identifiers"

DispatchNext ==
    \/ list_sets /\ Len(sets') <= 1
    \/ next_set
    \/ list_page
    \/ submit_all
    \/ join_all
    \/ \E i \in 1..MaxCollected : fetch_record(i)
    \/ \E i \in 1..MaxCollected : store_record(i)

Fairness ==
    /\ WF_vars(list_sets \/ next_set \/ list_page \/ submit_all \/ join_all)
    /\ \A i \in 1..MaxCollected : WF_vars(fetch_record(i)) /\ WF_vars(store_record(i))

DispatchSpec == DispatchInit /\ [][DispatchNext]_vars /\ Fairness

----------------------------------------------------------------------------
(* Unit specifications: one function applied to every input of a bounded    *)
(* family, the harvest standing still.                                      *)

HarvestIdle ==
    /\ mode = "identifiers"
    /\ pc = "idle"
    /\ error = "none"
    /\ sets = <<>>
    /\ setIdx = 0
    /\ partition = [n |-> 0, p |-> 1]
    /\ params = NoParams
    /\ resumption_token = NoToken
    /\ collected = <<>>
    /\ expected = 0
    /\ listing = NoListing
    /\ tasks = <<>>
    /\ saveIdx = 0
    /\ files = NoFiles
    /\ wire = {}
    /\ out = {}

\* make_request(params, session) against every transport
TransportInit ==
    /\ HarvestIdle
    /\ \E t \in Transports :
         call = [op |-> "make_request", transport |-> t, done |-> FALSE]

send_request ==
    /\ call.op = "make_request"
    /\ ~call.done
    /\ call' = [op |-> "make_request", transport |-> call.transport, done |-> TRUE,
                result |-> make_request(call.transport, 0)]
    /\ UNCHANGED harvestVars

SpecTransport == TransportInit /\ [][send_request]_vars

\* get_record_information(identifier, session) against a family of servers:
\* nbad bad answers first, and a transport that fails f times on every call,
\* or for good on one call
FailPlans ==
    {[n \in 1..MAX_RETRIES |-> f] : f \in 0..MAX_RETRIES}
    \cup {[NoFails EXCEPT ![c] = MAX_RETRIES + 1] : c \in 1..MAX_RETRIES}

FetchServers ==
    {GetRecordServer(nbad, bad, fails) :
         nbad \in 0..MAX_RETRIES, bad \in BadResponses, fails \in FailPlans}

FetchInit ==
    /\ HarvestIdle
    /\ \E server \in FetchServers :
         call = [op |-> "get_record_information", server |-> server, done |-> FALSE]

fetch_information ==
    /\ call.op = "get_record_information"
    /\ ~call.done
    /\ call' = [op |-> "get_record_information", server |-> call.server,
                done |-> TRUE, result |-> get_record_information(call.server)]
    /\ UNCHANGED harvestVars

SpecFetch == FetchInit /\ [][fetch_information]_vars

\* parse_sets(response.text) on every document of at most MaxListing set
\* elements, each naming a set of the catalogue; a set may be listed twice
ParseInputs ==
    UNION {[1..k -> {Catalogue[i] : i \in 1..Len(Catalogue)}] : k \in 0..MaxListing}

ParseInit ==
    /\ HarvestIdle
    /\ \E xml_data \in ParseInputs :
         call = [op |-> "parse_sets", xml_data |-> xml_data, done |-> FALSE]

apply_parse_sets ==
    /\ call.op = "parse_sets"
    /\ ~call.done
    /\ call' = [op |-> "parse_sets", xml_data |-> call.xml_data, done |-> TRUE,
                result |-> parse_sets(call.xml_data)]
    /\ UNCHANGED harvestVars

SpecParse == ParseInit /\ [][apply_parse_sets]_vars

\* save_metadata / save_record applied again and again: any payload for any
\* identifier of two sets, on whatever the directory holds by then
PersistInit == HarvestIdle /\ call = NoCall

persist ==
    \E dataset_id \in {<<"n">>, <<"m">>}, identifier \in {1, 2},
       record_xml \in {RecordBody} \cup ErrorBodies :
        /\ files' = save_metadata(record_xml, identifier, dataset_id)
        /\ call' = [op |-> "save_metadata", path |-> <<dataset_id, identifier>>,
                    content |-> record_xml]
        /\ UNCHANGED <<mode, pc, error, sets, setIdx, partition, params,
                       resumption_token, collected, expected, listing, tasks,
                       saveIdx, wire, out>>

SpecPersist == PersistInit /\ [][persist]_vars

----------------------------------------------------------------------------
(* Claims *)

Pow2Sum(k) == 2 ^ (k + 1) - 1    \* the sum of 2^i for i in 0..k

FailsThrough(t, k) ==
    /\ \A i \in 0..k : t[i] = "RequestException"
    /\ t[k + 1] = "ok"

\* C2: make_request, when the transport fails on attempts 0..k (k < 10) and
\* succeeds on attempt k+1, returns the response after k+2 attempts, having
\* slept 2^i after failed attempt i (in all at least the sum of 2^i, i in
\* 0..k); when every attempt fails it makes 1 + MAX_RETRIES attempts, sleeps
\* after the first MAX_RETRIES of them and raises.
C2_RetryBackoffAndCap ==
    (call.op = "make_request" /\ call.done) =>
        LET t == call.transport
            r == call.result
        IN  /\ \A k \in 0..(MAX_RETRIES - 1) :
                 FailsThrough(t, k) =>
                     /\ ~r.raised
                     /\ r.attempts = k + 2
                     /\ r.sleeps = [i \in 1..(k + 1) |-> 2 ^ (i - 1)]
                     /\ SumSeq(r.sleeps) >= Pow2Sum(k)
            /\ (\A i \in 0..MAX_RETRIES : t[i] = "RequestException") =>
                     /\ r.raised
                     /\ r.attempts = MAX_RETRIES + 1
                     /\ r.sleeps = [i \in 1..MAX_RETRIES |-> 2 ^ (i - 1)]
            /\ t[0] = "ok" => (~r.raised /\ r.attempts = 1 /\ r.sleeps = <<>>)

\* the transport failed on attempts 0..9 and the call returned on attempt 10
C2_Witness ==
    /\ call.op = "make_request"
    /\ call.done
    /\ FailsThrough(call.transport, MAX_RETRIES - 1)
    /\ ~call.result.raised
    /\ SumSeq(call.result.sleeps) = 1023

AlwaysMarked(server) ==
    \A n \in 1..MAX_RETRIES :
        /\ server[n].response.status_code = HTTP_OK
        /\ server[n].response.text \in ErrorBodies

Recovers(server) ==
    \A n \in 1..MAX_RETRIES : \E i \in 0..MAX_RETRIES : server[n].transport[i] = "ok"

\* C3: get_record_information, when every GetRecord answer is a 200 whose
\* body carries an error marker (and no call runs out of transport retries),
\* fetches MAX_RETRIES times, sleeps 5 * j seconds after the j-th marked
\* answer, and returns the last answer, marker included, without raising.
C3_MarkedAnswersRetriedThenReturned ==
    (call.op = "get_record_information" /\ call.done
        /\ AlwaysMarked(call.server) /\ Recovers(call.server)) =>
        LET r == call.result
        IN  /\ ~r.raised
            /\ r.calls = MAX_RETRIES
            /\ r.sleeps = [j \in 1..MAX_RETRIES |-> 5 * j]
            /\ r.response = call.server[MAX_RETRIES].response
            /\ r.response.status_code = HTTP_OK
            /\ r.response.text \in ErrorBodies

\* ten marked answers were fetched and the tenth was returned
C3_Witness ==
    /\ call.op = "get_record_information"
    /\ call.done
    /\ AlwaysMarked(call.server)
    /\ ~call.result.raised
    /\ call.result.calls = MAX_RETRIES
    /\ call.result.response.text = "idDoesNotExist"
    /\ SumSeq(call.result.sleeps) = 275


----------------------------------------------------------------------------
(* Claims about the harvest *)

Pages == CeilDiv(partition.n, partition.p)

\* C1: while the server serves a partition of n >= 1 items in pages of p with
\* a non-empty token on every page but the last, and no attempt fails, the
\* loop of list_identifiers / list_records is still running before its
\* ceil(n/p)-th request and has ended, on a missing or empty token, with it.
C1_HonestPaginationVisitsCeilPages ==
    (partition.n >= 1 /\ listing.honest /\ pc \in {"paginate", "listed", "raised"}) =>
        /\ pc # "raised"
        /\ pc = "paginate" => (listing.requests < Pages /\ listing.ended = "no")
        /\ pc = "listed" => (listing.requests = Pages /\ listing.ended = "no token"
                             /\ Len(collected) = partition.n)

\* three items in pages of two: two requests, then the loop has ended
C1_Witness ==
    /\ pc = "listed"
    /\ listing.honest
    /\ partition = [n |-> 3, p |-> 2]
    /\ listing.requests = 2
    /\ <<ListVerb, "make_request">> \in wire

\* the fetch of a task failed: its transport gave up, or its last answer is
\* one the retry loop counts as bad
FetchFailed(future) ==
    \/ future.state = "failed"
    \/ future.state \in {"fetched", "done"} /\ IsRetried(future.response)

\* C4: a task of identifier mode whose fetch failed has written no file.
C4_NoFileForFailedFetch ==
    \A i \in 1..Len(tasks) : FetchFailed(tasks[i]) => ~tasks[i].wrote

\* every identifier submitted has its file in the directory of the current
\* set, or its fetch failed
AllStored ==
    \A i \in 1..Len(tasks) :
        \/ FetchFailed(tasks[i])
        \/ <<sets[setIdx], tasks[i].identifier>> \in DOMAIN files

\* C5: with the threads scheduled fairly, once the identifiers of a partition
\* are submitted, every one of them whose fetch does not fail eventually has
\* its file in the partition's directory.
C5_EverySubmittedIdentifierGetsItsFile ==
    (pc = "join" /\ \E i \in 1..Len(tasks) : tasks[i].state = "pending") ~> AllStored

\* three identifiers were submitted and each has its file
C5_Witness ==
    /\ pc = "join"
    /\ Len(tasks) = 3
    /\ \A i \in 1..3 :
         /\ tasks[i].identifier = i
         /\ tasks[i].state = "done"
         /\ <<sets[setIdx], i>> \in DOMAIN files
         /\ files[<<sets[setIdx], i>>] = RecordBody

\* C6: a task that ended in an unrecovered transport error leaves its
\* siblings running: all tasks of the partition finish and the harvesting
\* thread leaves the with block without an exception; while it waits there it
\* can only go on to the next set.
C6_FailedTaskDoesNotHaltSiblings ==
    /\ (pc = "join" /\ \E i \in 1..Len(tasks) : tasks[i].state = "failed") ~>
           (/\ pc = "next_set"
            /\ error = "none"
            /\ \A i \in 1..Len(tasks) : Finished(tasks[i]))
    /\ [][pc = "join" => (pc' \in {"join", "next_set"} /\ error' = "none")]_vars

\* the first task failed, its two siblings wrote their files, and the
\* harvesting thread is past the with block
C6_Witness ==
    /\ pc = "next_set"
    /\ error = "none"
    /\ Len(tasks) = 3
    /\ tasks[1].state = "failed"
    /\ tasks[2].state = "done" /\ tasks[2].wrote
    /\ tasks[3].state = "done" /\ tasks[3].wrote

\* C7, as claimed: in identifier mode nothing that happens in a partition
\* aborts the run.
C7_NothingAbortsIdentifierMode ==
    (mode = "identifiers" /\ setIdx >= 1) => pc # "raised"

\* C7, amended: in identifier mode the run is aborted in a partition only by
\* an exception raised inside the ListIdentifiers loop; after the loop has
\* returned (a non-200 answer, an empty list, a mismatch, failed fetches) the
\* harvesting thread goes on to the next set.
C7_OnlyListingAbortsIdentifierMode ==
    (mode = "identifiers" /\ setIdx >= 1 /\ pc = "raised") =>
        (listing.ended = "raised" /\ error \in {"RequestException", "KeyError"})

\* a fetch of the first of two sets failed and the harvester is at the for
\* loop again
C7_Witness ==
    /\ mode = "identifiers"
    /\ pc = "next_set"
    /\ setIdx = 1
    /\ Len(sets) = 2
    /\ \E i \in 1..Len(tasks) : tasks[i].state = "failed"

\* C8: when the ListSets request has been made and has not produced a
\* listing, the run has ended normally with an error message, no set
\* processed and no exception.
C8_ListSetsFailureIsNotFatal ==
    (pc # "start" /\ setIdx = 0 /\ "Found sets" \notin out) =>
        (pc = "done" /\ error = "none" /\ "Error status" \in out /\ sets = <<>>)

\* C9, as claimed: every request issued goes through make_request.
C9_EveryRequestThroughMakeRequest ==
    \A w \in wire : w[2] = "make_request"

\* C9, amended: the ListIdentifiers, ListRecords and GetRecord requests go
\* through make_request; the ListSets request is sent with requests.get.
C9_AllButListSetsThroughMakeRequest ==
    \A w \in wire : (w[2] = "make_request") <=> (w[1] # "ListSets")

\* requests of three verbs have been issued
C9_Witness ==
    {w[1] : w \in wire} = {"ListSets", "ListIdentifiers", "GetRecord"}

\* C10, as claimed: once a response has been read, the loop has ended if and
\* only if that response carries no token (an empty one counts as none).
C10_EndsIffNoToken ==
    listing.last # NoResponse =>
        (listing.ended # "no" <=> ~Truthy(listing.last))

\* C10, amended: the loop has ended without an exception if and only if the
\* most recent response is not a 200 or carries no token; it ends on a
\* non-200 answer whatever token that answer carries.
C10_EndsIffNoTokenOrNot200 ==
    (listing.last # NoResponse /\ listing.ended # "raised") =>
        /\ listing.ended # "no" <=>
               (listing.status # HTTP_OK \/ ~Truthy(listing.last))
        /\ listing.ended = "not 200" <=> listing.status # HTTP_OK

\* the loop has ended on an answer that is not a 200 and carries a token
C10_Witness ==
    /\ pc = "listed"
    /\ listing.ended = "not 200"
    /\ Truthy(listing.last)
    /\ listing.requests = 2

\* C11: when the first response of a partition is a 200 that carries items
\* and no resumptionToken node, the loop has ended with that one request, the
\* expected total is the number of items of that page, and no mismatch is
\* reported.
C11_FirstPageWithoutTokenEndsListing ==
    (/\ listing.requests = 1
     /\ listing.status = HTTP_OK
     /\ listing.last = NoToken
     /\ collected # <<>>) =>
        /\ pc = "listed"
        /\ listing.ended = "no token"
        /\ Len(collected) = Min(partition.p, partition.n)
        /\ expected = Len(collected)
        /\ "Mismatch" \notin out

\* a first page of two items without a token ended the listing
C11_Witness ==
    /\ pc = "listed"
    /\ listing.requests = 1
    /\ listing.last = NoToken
    /\ Len(collected) = 2
    /\ expected = 2
    /\ "No resumption token found" \in out

\* C12: in both modes, when the pagination loop has ended with a number of
\* collected items that differs from the expected total, the mismatch warning
\* has been printed.
C12_MismatchAlwaysWarned ==
    (pc = "listed" /\ Len(collected) # expected) => "Mismatch" \in out

\* a set spec with a hierarchy separator, and one without
HasSeparator(set_spec) == \E i \in 1..Len(set_spec) : set_spec[i] = ":"
IsFlat(set_spec) == ~HasSeparator(set_spec)

\* C13: parse_sets returns the set specs of the document that contain no
\* ":", in document order and as often as they are listed, and none that
\* contains one; the listing [n, n:i] yields [n].
C13_ParseSetsKeepsFlatSpecs ==
    (call.op = "parse_sets" /\ call.done) =>
        /\ call.result = SelectSeq(call.xml_data, IsFlat)
        /\ \A i \in 1..Len(call.result) : IsFlat(call.result[i])
        /\ call.xml_data = <<<<"n">>, <<"n", ":", "i">>>> =>
               call.result = <<<<"n">>>>

\* a hierarchical spec between two flat ones was dropped, the order kept
C13_Witness ==
    /\ call.op = "parse_sets"
    /\ call.done
    /\ call.xml_data = <<<<"m">>, <<"n", ":", "i">>, <<"n">>>>
    /\ call.result = <<<<"m">>, <<"n">>>>

\* C14: after every persist operation the file of its identifier holds
\* exactly the payload just written, whatever it held before, and every
\* other file is as it was; persisting the payload that was persisted last
\* for the same identifier changes nothing.
C14_PersistOverwrites ==
    /\ [](call.op = "save_metadata" =>
              (call.path \in DOMAIN files /\ files[call.path] = call.content))
    /\ [][call'.op = "save_metadata" =>
              /\ DOMAIN files' = DOMAIN files \cup {call'.path}
              /\ \A q \in DOMAIN files : q # call'.path => files'[q] = files[q]
              /\ (/\ call.op = "save_metadata"
                  /\ call'.path = call.path
                  /\ call'.content = call.content) => files' = files]_vars

\* a file that held an error body was persisted again and holds the record
C14_Witness ==
    /\ call.op = "save_metadata"
    /\ call.path = <<<<"n">>, 1>>
    /\ call.content = RecordBody
    /\ files[<<<<"n">>, 1>>] = RecordBody
    /\ <<<<"n">>, 2>> \in DOMAIN files
    /\ files[<<<<"n">>, 2>>] = "idDoesNotExist"

\* C15: the worker tasks of a partition exist unfinished only while the
\* harvesting thread waits in the with block of that partition: it takes the
\* next set, and so issues the next list request, only when every task has
\* finished.  Batch mode has no worker: every request is issued, and
\* answered, within a step of the one harvesting thread.
C15_NoCrossPartitionConcurrency ==
    /\ [](pc # "join" => \A i \in 1..Len(tasks) : Finished(tasks[i]))
    /\ [](mode = "batch" => tasks = <<>>)
    /\ [][listing'.requests = listing.requests + 1 =>
              (pc = "paginate" /\ tasks = <<>>)]_vars
    /\ [][(mode = "batch" /\ wire' # wire) => pc \in {"start", "paginate"}]_vars

\* the second partition is being listed and the file of the first is written
C15_Witness ==
    /\ mode = "identifiers"
    /\ setIdx = 2
    /\ listing.requests = 1
    /\ tasks = <<>>
    /\ <<sets[1], 1>> \in DOMAIN files

\* C16: when the first response of a partition is a 200 without a
\* completeListSize, the resumptionToken node missing or present, the
\* expected total is the number of items seen so far and no error is raised.
C16_MissingSizeFallsBackToCount ==
    (/\ listing.requests = 1
     /\ listing.status = HTTP_OK
     /\ listing.size = NoAttr) =>
        /\ pc # "raised"
        /\ error = "none"
        /\ expected = Len(collected)

\* C17: while a partition is paginated, an expected total that is not zero
\* stays as it is over every further page, whatever completeListSize the
\* page carries.
C17_ExpectedFixedOnceNonZero ==
    [][(pc = "paginate" /\ expected # 0) => expected' = expected]_vars

\* the second page announced one item more than the first; the expected
\* total is still that of the first
C17_Witness ==
    /\ listing.requests = 2
    /\ listing.status = HTTP_OK
    /\ partition.n >= 2
    /\ expected = partition.n
    /\ listing.size = partition.n + 1

\* C18: the first list request of a partition carries verb, metadataPrefix
\* and the partition's set; every later one carries verb and resumptionToken
\* only, the token being the one of the response to the request before it.
C18_RequestShape ==
    [][listing'.requests = listing.requests + 1 =>
          IF listing.requests = 0
          THEN params' = [verb |-> ListVerb, metadataPrefix |-> "ddb",
                          set |-> sets[setIdx]]
          ELSE /\ Truthy(listing.last)
               /\ params' = [verb |-> ListVerb, resumptionToken |-> listing.last]]_vars

\* the second request for the second set carried the token of the first
\* response and nothing of the set
C18_Witness ==
    /\ setIdx = 2
    /\ listing.requests = 2
    /\ DOMAIN params = {"verb", "resumptionToken"}
    /\ params.resumptionToken = 2

\* C19: while a partition is listed, and for good when its listing was
\* aborted by an exception, no fetch task of it exists and no file is in its
\* directory; files are written only after the listing has returned, in the
\* with block or the save loop.
C19_ListingPrecedesPersisting ==
    /\ []((pc \in {"paginate", "listed"} \/ (setIdx >= 1 /\ error # "none")) =>
             /\ tasks = <<>>
             /\ \A path \in DOMAIN files : path[1] # sets[setIdx])
    /\ [][files' # files => (pc \in {"join", "save"} /\ error = "none")]_vars

\* a page was received, the next request ran out of retries: nothing of the
\* set is on disk
C19_Witness ==
    /\ pc = "raised"
    /\ error = "RequestException"
    /\ listing.requests = 2
    /\ collected # <<>>
    /\ \A path \in DOMAIN files : path[1] # sets[setIdx]

\* C20: a get_record_information call ends, with a response or an
\* exception, after at most MAX_RETRIES make_request calls of at most
\* MAX_RETRIES + 1 attempts each: at most 110 attempts.
C20_NestedRetryBound ==
    (call.op = "get_record_information" /\ call.done) =>
        LET r == call.result
        IN  /\ r.calls >= 1
            /\ r.calls <= MAX_RETRIES
            /\ ~r.raised => r.response = call.server[r.calls].response
            /\ \A n \in 1..MAX_RETRIES :
                   make_request(call.server[n].transport, 0).attempts <= MAX_RETRIES + 1
            /\ r.attempts <= r.calls * (MAX_RETRIES + 1)
            /\ r.attempts <= 110

\* ten bad answers, each after ten failed attempts: 110 attempts
C20_Witness ==
    /\ call.op = "get_record_information"
    /\ call.done
    /\ ~call.result.raised
    /\ call.result.calls = MAX_RETRIES
    /\ call.result.attempts = 110

====
